---- MODULE Spec2Model ----
(***************************************************************************)
(* Monastery site: the map widget (catalog, filter, marker layer,          *)
(* viewport), the image slider, and the two backend variants (serverless   *)
(* and long-running server) of src/index.js.                               *)
(*                                                                         *)
(* A JavaScript string that the code searches or lower-cases is a sequence *)
(* of one-character strings; a string the code only compares is a TLA+     *)
(* string.  Latitudes and longitudes are scaled by 10^4, the view centre   *)
(* by 10^2.                                                                *)
(***************************************************************************)
EXTENDS Integers, Sequences, FiniteSets, TLC

VARIABLES
    \* ---- map widget (src/unnamed/part_000, lines 1-102)
    map,             \* 0 (undefined) or the index in viewports of the current L.map
    viewports,       \* every L.map ever constructed, in construction order
    markers,         \* the layers of the L.layerGroup, in insertion order
    sectFilter,      \* value of #sectFilter
    locationFilter,  \* value of #locationFilter
    searchInput,     \* value of #searchInput
    feedback,        \* #searchFeedback: [textContent, display]
    rendered,        \* history: the argument of the latest addMarkers call
    renderAttached,  \* history: the layer group was on the current map at that call
    lastOp,          \* history: the handler that ran last
    \* ---- slider (src/unnamed/part_000, lines 106-133)
    slideCount,      \* slides.length
    currentSlide,    \* index, or NaN
    active,          \* active[i]: slide i carries class 'active' (i in 0..slideCount-1)
    timerOn,         \* setInterval(nextSlide, 5000) is armed
    runDir,          \* history: direction of the current run of calls
    runLen,          \* history: length of that run
    runStart,        \* history: currentSlide when the run began
    \* ---- backend (src/index.js)
    variant,         \* "serverless" (lines 1-171) or "server" (lines 172-341)
    users,           \* the User collection, in insertion order
    photos,          \* the Photo collection, in insertion order
    clock,           \* Date.now()
    tokens,          \* payloads of the tokens jwt.sign has issued
    signups,         \* signup handlers in flight, each suspended at an await
    nSignups,        \* signup requests received so far
    response         \* the latest response sent: [op, status, ...]

mapVars == <<map, viewports, markers, sectFilter, locationFilter, searchInput,
             feedback, rendered, renderAttached, lastOp>>
slideVars == <<slideCount, currentSlide, active, timerOn, runDir, runLen, runStart>>
backendVars == <<variant, users, photos, clock, tokens, signups, nSignups, response>>
vars == <<mapVars, slideVars, backendVars>>

----------------------------------------------------------------------------
(* Bounds *)

\* initMap calls in one run
MaxInits == 3

\* slides on the page
MaxSlides == 4

\* consecutive slider calls in one direction
MaxRun == 6

\* signup requests in one run
MaxSignups == 2

\* documents in the Photo collection
MaxPhotos == 2

\* milliseconds Date.now() advances in one run
MaxClock == 1

----------------------------------------------------------------------------
(* The catalog *)

MONASTERY_LOCATIONS == <<
    [name |-> <<"R","u","m","t","e","k"," ","M","o","n","a","s","t","e","r","y">>,
     lat |-> 272753, lng |-> 885447, sect |-> "Kagyu",
     location |-> <<"E","a","s","t"," ","S","i","k","k","i","m">>],
    [name |-> <<"P","e","m","a","y","a","n","g","t","s","e"," ","M","o","n","a","s","t","e","r","y">>,
     lat |-> 273193, lng |-> 882435, sect |-> "Nyingma",
     location |-> <<"W","e","s","t"," ","S","i","k","k","i","m">>],
    [name |-> <<"T","a","s","h","i","d","i","n","g"," ","M","o","n","a","s","t","e","r","y">>,
     lat |-> 273060, lng |-> 882932, sect |-> "Nyingma",
     location |-> <<"W","e","s","t"," ","S","i","k","k","i","m">>],
    [name |-> <<"E","n","c","h","e","y"," ","M","o","n","a","s","t","e","r","y">>,
     lat |-> 273370, lng |-> 886143, sect |-> "Nyingma",
     location |-> <<"E","a","s","t"," ","S","i","k","k","i","m">>],
    [name |-> <<"P","h","o","d","o","n","g"," ","M","o","n","a","s","t","e","r","y">>,
     lat |-> 274208, lng |-> 885833, sect |-> "Kagyu",
     location |-> <<"N","o","r","t","h"," ","S","i","k","k","i","m">>],
    [name |-> <<"S","a","n","g","a"," ","C","h","o","e","l","i","n","g"," ","M","o","n","a","s","t","e","r","y">>,
     lat |-> 273069, lng |-> 882415, sect |-> "Nyingma",
     location |-> <<"W","e","s","t"," ","S","i","k","k","i","m">>],
    [name |-> <<"D","u","b","d","i"," ","M","o","n","a","s","t","e","r","y">>,
     lat |-> 273592, lng |-> 883533, sect |-> "Nyingma",
     location |-> <<"W","e","s","t"," ","S","i","k","k","i","m">>],
    [name |-> <<"L","i","n","g","d","u","m"," ","M","o","n","a","s","t","e","r","y"," ","(","R","a","n","k","a",")">>,
     lat |-> 273005, lng |-> 885710, sect |-> "Kagyu",
     location |-> <<"E","a","s","t"," ","S","i","k","k","i","m">>],
    [name |-> <<"D","o"," ","D","r","u","l"," ","C","h","o","r","t","e","n">>,
     lat |-> 273277, lng |-> 886186, sect |-> "Nyingma",
     location |-> <<"E","a","s","t"," ","S","i","k","k","i","m">>] >>

SIKKIM_CENTER == <<2733, 8862>>

ZOOM_LEVEL == 10

\* The values the two selectors and the search box are given.
ALL == <<"a","l","l">>

SectOptions == {"all", "Kagyu", "Nyingma", "Gelug"}

LocationOptions ==
    { ALL,
      <<"E","a","s","t"," ","S","i","k","k","i","m">>,
      <<"W","e","s","t"," ","S","i","k","k","i","m">>,
      <<"N","o","r","t","h"," ","S","i","k","k","i","m">>,
      <<"S","o","u","t","h"," ","S","i","k","k","i","m">> }

SearchTexts ==
    { <<>>,
      <<"r","u","m","t","e","k">>,
      <<"R","U","M","T","E","K">>,
      <<"E","a","s","t">>,
      <<"r","a","n","k","a">>,
      <<"z","z","z">> }

----------------------------------------------------------------------------
(* String.prototype.toLowerCase and String.prototype.includes *)

UpperCase == <<"A","B","C","D","E","F","G","H","I","J","K","L","M",
               "N","O","P","Q","R","S","T","U","V","W","X","Y","Z">>

LowerCase == <<"a","b","c","d","e","f","g","h","i","j","k","l","m",
               "n","o","p","q","r","s","t","u","v","w","x","y","z">>

\* The lower-case form of each upper-case letter
lowerOf == [c \in {UpperCase[i] : i \in 1..Len(UpperCase)} |->
               LowerCase[CHOOSE i \in 1..Len(UpperCase) : UpperCase[i] = c]]

toLowerCaseChar(c) == IF c \in DOMAIN lowerOf THEN lowerOf[c] ELSE c

toLowerCase(s) == [i \in 1..Len(s) |-> toLowerCaseChar(s[i])]

\* s.includes(t): t occurs in s at some position; the empty t occurs in every s.
includes(s, t) ==
    \E k \in 0..(Len(s) - Len(t)) : SubSeq(s, k + 1, k + Len(t)) = t

----------------------------------------------------------------------------
(* filterMonasteries: the predicate and Array.prototype.filter *)

matchesSect(monastery, sect) == sect = "all" \/ monastery.sect = sect

matchesLocation(monastery, location) ==
    location = ALL \/ monastery.location = location

\* Mutant of matchesSearch: the record's fields are not lower-cased.
matchesSearchCaseSensitive(monastery, searchTerm) ==
    \/ includes(monastery.name, searchTerm)
    \/ includes(monastery.location, searchTerm)

\* searchTerm is the search box's value, already lower-cased.
matchesSearch(monastery, searchTerm) ==
    \/ includes(toLowerCase(monastery.name), searchTerm)
    \/ includes(toLowerCase(monastery.location), searchTerm)

matches(monastery, sect, location, searchTerm) ==
    /\ matchesSect(monastery, sect)
    /\ matchesLocation(monastery, location)
    /\ matchesSearch(monastery, searchTerm)

RECURSIVE filter(_, _, _, _)
filter(locations, sect, location, searchTerm) ==
    IF locations = <<>> THEN <<>>
    ELSE (IF matches(Head(locations), sect, location, searchTerm)
          THEN <<Head(locations)>> ELSE <<>>)
         \o filter(Tail(locations), sect, location, searchTerm)

----------------------------------------------------------------------------
(* The marker layer *)

\* L.marker([lat, lng]) with marker.options.monastery set
Marker(monastery) ==
    [latlng |-> <<monastery.lat, monastery.lng>>, monastery |-> monastery]

\* Mutant of clearLayers: the earlier markers stay in the group.
clearLayersKeeps(layers) == layers

clearLayers(layers) == <<>>

\* addMarkers(locations) on a layer group holding `layers`
addMarkers(layers, locations) ==
    clearLayers(layers) \o [i \in 1..Len(locations) |-> Marker(locations[i])]

----------------------------------------------------------------------------
(* The feedback text *)

Digits == <<"0","1","2","3","4","5","6","7","8","9">>

\* Number-to-string conversion of a template literal, for n >= 0
RECURSIVE NumberToString(_)
NumberToString(n) ==
    IF n < 10 THEN <<Digits[n + 1]>>
    ELSE NumberToString(n \div 10) \o <<Digits[(n % 10) + 1]>>

\* Mutant of feedbackText: the count shown is the size of the catalog.
feedbackTextOfCatalog(n) ==
    <<"F","o","u","n","d"," ">> \o NumberToString(Len(MONASTERY_LOCATIONS)) \o
    <<" ","m","o","n","a","s","t","e","r","i","e","s"," ","m","a","t","c","h",
      "i","n","g"," ","y","o","u","r"," ","c","r","i","t","e","r","i","a",".">>

feedbackText(n) ==
    <<"F","o","u","n","d"," ">> \o NumberToString(n) \o
    <<" ","m","o","n","a","s","t","e","r","i","e","s"," ","m","a","t","c","h",
      "i","n","g"," ","y","o","u","r"," ","c","r","i","t","e","r","i","a",".">>

----------------------------------------------------------------------------
(* The viewport *)

\* L.map('monasteryMap').setView(SIKKIM_CENTER, ZOOM_LEVEL), then the tile layer
NewViewport ==
    [removed |-> FALSE, center |-> SIKKIM_CENTER, zoom |-> ZOOM_LEVEL,
     tileLayer |-> TRUE, markerGroup |-> FALSE]

\* Mutant of removeMap: the earlier viewport is left standing.
removeMapSkipped(vps, m) == vps

\* if (map) map.remove(): the viewport is torn down and its layers taken off it
removeMap(vps, m) ==
    IF m = 0 THEN vps
    ELSE [vps EXCEPT ![m] = [@ EXCEPT !.removed = TRUE, !.tileLayer = FALSE,
                                      !.markerGroup = FALSE]]

\* Mutant of addTo: the layer group is never put on the map.
addToSkipped(vps, m) == vps

\* markers.addTo(map)
addTo(vps, m) == [vps EXCEPT ![m] = [@ EXCEPT !.markerGroup = TRUE]]

\* Is the layer group on the current map?
markersOnMap(vps, m) == m # 0 /\ vps[m].markerGroup

MapInit ==
    /\ map = 0
    /\ viewports = <<>>
    /\ markers = <<>>
    /\ sectFilter = "all"
    /\ locationFilter = ALL
    /\ searchInput = <<>>
    /\ feedback = [textContent |-> <<>>, display |-> "none"]
    /\ rendered = <<>>
    /\ renderAttached = FALSE
    /\ lastOp = "load"

initMap ==
    /\ Len(viewports) < MaxInits
    /\ LET torn == removeMap(viewports, map)
           made == Append(torn, NewViewport)
           m    == Len(made)
       IN  /\ map' = m
           /\ renderAttached' = markersOnMap(made, m)
           /\ markers' = addMarkers(markers, MONASTERY_LOCATIONS)
           /\ rendered' = MONASTERY_LOCATIONS
           /\ viewports' = addTo(made, m)
    /\ lastOp' = "initMap"
    /\ UNCHANGED <<sectFilter, locationFilter, searchInput, feedback,
                   slideVars, backendVars>>

\* The body of window.filterMonasteries, with the three controls holding
\* sect, location and text when it runs.
runFilter(sect, location, text) ==
    LET searchTerm == toLowerCase(text)
        filtered   == filter(MONASTERY_LOCATIONS, sect, location, searchTerm)
    IN  /\ sectFilter' = sect
        /\ locationFilter' = location
        /\ searchInput' = text
        /\ rendered' = filtered
        /\ renderAttached' = markersOnMap(viewports, map)
        /\ markers' = addMarkers(markers, rendered')
        /\ feedback' = [textContent |-> feedbackText(Len(rendered')),
                        display |-> "block"]
        /\ UNCHANGED <<map, viewports, slideVars, backendVars>>

filterMonasteries ==
    /\ \E sect \in SectOptions, location \in LocationOptions, text \in SearchTexts :
          runFilter(sect, location, text)
    /\ lastOp' = "filterMonasteries"

\* window.search calls filterMonasteries()
search ==
    /\ \E sect \in SectOptions, location \in LocationOptions, text \in SearchTexts :
          runFilter(sect, location, text)
    /\ lastOp' = "search"

MapNext ==
    \/ initMap
    \/ filterMonasteries
    \/ search

----------------------------------------------------------------------------
(* The slider *)

\* NaN, which no arithmetic of the slider otherwise yields
NaN == -999

\* JavaScript's a % n: NaN for a zero divisor, else the remainder with the
\* sign of a
remainder(a, n) ==
    IF n = 0 THEN NaN ELSE IF a >= 0 THEN a % n ELSE -((-a) % n)

\* Mutant of nextIndex: the index is not wrapped.
nextIndexUnwrapped(cur, n) == IF cur = NaN THEN NaN ELSE cur + 1

\* (currentSlide + 1) % slides.length
nextIndex(cur, n) == IF cur = NaN THEN NaN ELSE remainder(cur + 1, n)

\* Mutant of prevIndex: slides.length is not added before the %.
prevIndexNoShift(cur, n) == IF cur = NaN THEN NaN ELSE remainder(cur - 1, n)

\* (currentSlide - 1 + slides.length) % slides.length
prevIndex(cur, n) == IF cur = NaN THEN NaN ELSE remainder(cur - 1 + n, n)

\* The class list of every slide after showSlide(index)
showSlide(index, n) == [i \in 0..(n - 1) |-> i = index]

SlidesInit ==
    /\ slideCount \in 0..MaxSlides
    /\ currentSlide = 0
    /\ active = showSlide(IF slideCount > 0 THEN 0 ELSE NaN, slideCount)
    /\ timerOn = (slideCount > 0)
    /\ runDir = "none"
    /\ runLen = 0
    /\ runStart = 0

\* currentSlide = index; showSlide(currentSlide)
moveTo(index) ==
    /\ currentSlide' = index
    /\ active' = showSlide(index, slideCount)
    /\ UNCHANGED <<slideCount, timerOn, mapVars, backendVars>>

\* History: one more call in direction dir
counted(dir) ==
    /\ runLen < MaxRun \/ runDir # dir
    /\ runDir' = dir
    /\ runLen' = IF runDir = dir THEN runLen + 1 ELSE 1
    /\ runStart' = IF runDir = dir THEN runStart ELSE currentSlide

nextSlide ==
    /\ moveTo(nextIndex(currentSlide, slideCount))
    /\ counted("next")

prevSlide ==
    /\ moveTo(prevIndex(currentSlide, slideCount))
    /\ counted("prev")

\* The setInterval callback, armed when there is a slide
timer ==
    /\ timerOn
    /\ moveTo(nextIndex(currentSlide, slideCount))
    /\ counted("next")

SlidesNext ==
    \/ nextSlide
    \/ prevSlide
    \/ timer

----------------------------------------------------------------------------
(* The backend: requests *)

Usernames == {"", "ann", "bob"}

\* The empty password, one of 5 characters and one of 6
Passwords == { <<>>, <<"a","b","c","d","e">>, <<"s","e","c","r","e","t">> }

\* Documents the Photo collection may hold when the process starts
SeedPhotos ==
    { <<>>,
      <<[filename |-> <<0, ".jpg">>, filepath |-> <<"/uploads/", <<0, ".jpg">>>>,
         uploadDate |-> 0]>> }

\* bcrypt.hash(password, 10) and bcrypt.compare(password, hash)
hash(password) == [bcrypt |-> password]

compare(password, hashed) == hashed.bcrypt = password

NoUser == [username |-> "", role |-> ""]

\* The Authorization header: absent, a token that does not verify, or a
\* token jwt.sign issued
AuthHeaders ==
    {[kind |-> "none", user |-> NoUser], [kind |-> "invalid", user |-> NoUser]}
    \cup {[kind |-> "valid", user |-> t] : t \in tokens}

\* The multipart part named 'photo': none, one within the 10 MB limit, one over it
Files == {"none", "ok", "tooLarge"}

mockPhotos == << [filepath |-> "/static/rumtek.jpg"],
                 [filepath |-> "/static/pemayangtse.jpg"] >>

BackendInit ==
    /\ variant \in {"serverless", "server"}
    /\ users = <<>>
    /\ photos \in SeedPhotos
    /\ clock = 0
    /\ tokens = {}
    /\ signups = {}
    /\ nSignups = 0
    /\ response = [op |-> "none", status |-> 0]

----------------------------------------------------------------------------
(* POST /api/signup.  The handler is suspended at each await; the steps of   *)
(* concurrent requests interleave.                                          *)

\* The await a request reaches first, and the one after each
firstAwait(v) == IF v = "serverless" THEN "hash" ELSE "count"

nextAwait(v, pc) ==
    IF v = "serverless"
    THEN (IF pc = "hash" THEN "count" ELSE "create")
    ELSE (IF pc = "count" THEN "hash" ELSE "create")

\* The checks before the first await: the status to answer with, or 0 to go on
validateSignup(v, username, password) ==
    IF username = "" \/ password = <<>> THEN 400
    ELSE IF v = "server" /\ Len(password) < 6 THEN 400
    ELSE 0

\* dbOk: no database call of the request threw anything but a duplicate key
signupResponse(r, status, dbOk) ==
    [op |-> "signup", status |-> status, dbOk |-> dbOk, id |-> r.id,
     username |-> r.username, password |-> r.password]

\* const role = userCount === 0 ? 'admin' : 'user'
roleFor(userCount) == IF userCount = 0 THEN "admin" ELSE "user"

usernameTaken(username) == \E i \in 1..Len(users) : users[i].username = username

signupReceive ==
    /\ nSignups < MaxSignups
    /\ \E username \in Usernames, password \in Passwords :
         LET r == [id |-> nSignups + 1, username |-> username,
                   password |-> password, pc |-> firstAwait(variant),
                   userCount |-> 0]
             status == validateSignup(variant, username, password)
         IN  IF status # 0
             THEN /\ response' = signupResponse(r, status, TRUE)
                  /\ UNCHANGED signups
             ELSE /\ signups' = signups \cup {r}
                  /\ UNCHANGED response
    /\ nSignups' = nSignups + 1
    /\ UNCHANGED <<variant, users, photos, clock, tokens,
                   mapVars, slideVars>>

\* await bcrypt.hash(password, 10) returns
signupHash ==
    \E r \in signups :
        /\ r.pc = "hash"
        /\ signups' = (signups \ {r}) \cup {[r EXCEPT !.pc = nextAwait(variant, "hash")]}
        /\ UNCHANGED <<variant, users, photos, clock, tokens, nSignups, response,
                   mapVars, slideVars,
                       mapVars, slideVars>>

\* await User.countDocuments() returns, or throws
signupCount ==
    \E r \in signups, dbOk \in BOOLEAN :
        /\ r.pc = "count"
        /\ IF dbOk
           THEN /\ signups' = (signups \ {r}) \cup
                        {[r EXCEPT !.pc = nextAwait(variant, "count"),
                                   !.userCount = Len(users)]}
                /\ UNCHANGED response
           ELSE /\ signups' = signups \ {r}
                /\ response' = signupResponse(r, 500, FALSE)
        /\ UNCHANGED <<variant, users, photos, clock, tokens, nSignups,
                   mapVars, slideVars,
                       mapVars, slideVars>>

\* await User.create({username, password: hashedPassword, role}) returns, or
\* throws: code 11000 for a username the unique index already holds
signupCreate ==
    \E r \in signups, dbOk \in BOOLEAN :
        /\ r.pc = "create"
        /\ signups' = signups \ {r}
        /\ IF usernameTaken(r.username)
           THEN /\ response' = signupResponse(r, 409, TRUE)
                /\ UNCHANGED users
           ELSE IF ~dbOk
           THEN /\ response' = signupResponse(r, 500, FALSE)
                /\ UNCHANGED users
           ELSE /\ users' = Append(users, [username |-> r.username,
                                           password |-> hash(r.password),
                                           role |-> roleFor(r.userCount)])
                /\ response' = signupResponse(r, 201, TRUE)
        /\ UNCHANGED <<variant, photos, clock, tokens, nSignups,
                   mapVars, slideVars,
                       mapVars, slideVars>>

----------------------------------------------------------------------------
(* POST /api/login *)

login ==
    \E username \in Usernames, password \in Passwords, dbOk \in BOOLEAN :
        /\ IF ~dbOk
           THEN /\ response' = [op |-> "login", status |-> 500]
                /\ UNCHANGED tokens
           ELSE IF ~usernameTaken(username)
           THEN /\ response' = [op |-> "login", status |-> 401]
                /\ UNCHANGED tokens
           ELSE LET user == users[CHOOSE i \in 1..Len(users) :
                                      users[i].username = username]
                IN  IF ~compare(password, user.password)
                    THEN /\ response' = [op |-> "login", status |-> 401]
                         /\ UNCHANGED tokens
                    ELSE /\ tokens' = tokens \cup
                                {[username |-> user.username, role |-> user.role]}
                         /\ response' = [op |-> "login", status |-> 200]
        /\ UNCHANGED <<variant, users, photos, clock, signups, nSignups,
                   mapVars, slideVars,
                       mapVars, slideVars>>

----------------------------------------------------------------------------
(* POST /api/upload-photo: the middleware chain.  Each middleware yields the *)
(* status it answers with, or 0 when it calls next().                       *)

authenticateToken(auth) ==
    IF auth.kind = "none" THEN 401
    ELSE IF auth.kind = "invalid" THEN 403
    ELSE 0

isAdmin(auth) == IF auth.user.role = "admin" THEN 0 ELSE 403

\* upload.single('photo') with limits.fileSize 10 MB: a part over the limit
\* is passed to next(err), which Express answers with 500
uploadSingle(file) == IF file = "tooLarge" THEN 500 ELSE 0

\* The first status a chain of middleware answers with, or 0
RECURSIVE chain(_)
chain(statuses) ==
    IF statuses = <<>> THEN 0
    ELSE IF Head(statuses) # 0 THEN Head(statuses)
    ELSE chain(Tail(statuses))

\* The status the middleware before the route handler answers with, or 0
uploadMiddleware(v, auth, file) ==
    IF v = "serverless"
    THEN chain(<<authenticateToken(auth), uploadSingle(file)>>)
    ELSE chain(<<authenticateToken(auth), isAdmin(auth), uploadSingle(file)>>)

\* filename: Date.now() + path.extname(file.originalname)
newPhoto(now) ==
    [filename |-> <<now, ".jpg">>, filepath |-> <<"/uploads/", <<now, ".jpg">>>>,
     uploadDate |-> now]

uploadResponse(auth, file, status) ==
    [op |-> "upload", status |-> status, auth |-> auth, file |-> file,
     photosBefore |-> Len(photos)]

uploadPhoto ==
    /\ Len(photos) < MaxPhotos
    /\ \E auth \in AuthHeaders, file \in Files, dbOk \in BOOLEAN :
         LET early == uploadMiddleware(variant, auth, file)
         IN  IF early # 0
             THEN /\ response' = uploadResponse(auth, file, early)
                  /\ UNCHANGED photos
             ELSE IF variant = "serverless"
             THEN \* the route handler of lines 111-126
                  /\ response' = uploadResponse(auth, file,
                                     IF auth.user.role # "admin" THEN 403 ELSE 201)
                  /\ UNCHANGED photos
             ELSE \* the route handler of lines 299-314
                  IF file = "none"
                  THEN /\ response' = uploadResponse(auth, file, 400)
                       /\ UNCHANGED photos
                  ELSE IF ~dbOk
                  THEN /\ response' = uploadResponse(auth, file, 500)
                       /\ UNCHANGED photos
                  ELSE /\ photos' = Append(photos, newPhoto(clock))
                       /\ response' = uploadResponse(auth, file, 201)
    /\ UNCHANGED <<variant, users, clock, tokens, signups, nSignups,
                   mapVars, slideVars>>

----------------------------------------------------------------------------
(* GET /api/photos *)

\* The orders Photo.find().sort({uploadDate: -1}) may return docs in: every
\* arrangement with uploadDate descending (documents of equal date in any order)
sortedByUploadDate(docs) ==
    { [i \in 1..Len(docs) |-> docs[p[i]]] :
        p \in { q \in [1..Len(docs) -> 1..Len(docs)] :
                  /\ \A i, j \in 1..Len(docs) : i # j => q[i] # q[j]
                  /\ \A i, j \in 1..Len(docs) :
                        i < j => docs[q[i]].uploadDate >= docs[q[j]].uploadDate } }

photosResponse(dbOk, status, body) ==
    [op |-> "photos", status |-> status, dbOk |-> dbOk, body |-> body]

getPhotos ==
    /\ \E dbOk \in BOOLEAN, found \in sortedByUploadDate(photos) :
         IF variant = "serverless"
         THEN IF ~dbOk THEN response' = photosResponse(dbOk, 200, mockPhotos)
              ELSE IF Len(found) = 0
                   THEN response' = photosResponse(dbOk, 200, mockPhotos)
                   ELSE response' = photosResponse(dbOk, 200, found)
         ELSE IF ~dbOk THEN response' = photosResponse(dbOk, 500, <<>>)
              ELSE response' = photosResponse(dbOk, 200, found)
    /\ UNCHANGED <<variant, users, photos, clock, tokens, signups, nSignups,
                   mapVars, slideVars>>

\* Date.now() advances
tick ==
    /\ clock < MaxClock
    /\ clock' = clock + 1
    /\ UNCHANGED <<variant, users, photos, tokens, signups, nSignups, response,
                   mapVars, slideVars>>

BackendNext ==
    \/ signupReceive
    \/ signupHash
    \/ signupCount
    \/ signupCreate
    \/ login
    \/ uploadPhoto
    \/ getPhotos
    \/ tick

----------------------------------------------------------------------------
(* Specifications.  Each runs one part of the site from its state after     *)
(* load, with the other parts at rest.                                      *)

SlidesAtRest ==
    /\ slideCount = 0
    /\ currentSlide = 0
    /\ active = showSlide(NaN, 0)
    /\ timerOn = FALSE
    /\ runDir = "none"
    /\ runLen = 0
    /\ runStart = 0

BackendAtRest ==
    /\ variant = "server"
    /\ users = <<>>
    /\ photos = <<>>
    /\ clock = 0
    /\ tokens = {}
    /\ signups = {}
    /\ nSignups = 0
    /\ response = [op |-> "none", status |-> 0]

Init == MapInit /\ SlidesAtRest /\ BackendAtRest

Spec == Init /\ [][MapNext]_vars

InitSlides == MapInit /\ SlidesInit /\ BackendAtRest

SpecSlides == InitSlides /\ [][SlidesNext]_vars

InitBackend == MapInit /\ SlidesAtRest /\ BackendInit

SpecBackend == InitBackend /\ [][BackendNext]_vars

----------------------------------------------------------------------------
(* Properties of the map widget, checked under Spec *)

afterFilter == lastOp \in {"filterMonasteries", "search"}

\* Two characters are the same letter, whatever their case.
SameLetter(c, d) ==
    c = d \/ \E i \in 1..Len(UpperCase) : {c, d} = {UpperCase[i], LowerCase[i]}

\* t occurs in s, letters compared whatever their case.
OccursIgnoringCase(t, s) ==
    \E k \in 0..(Len(s) - Len(t)) : \A i \in 1..Len(t) : SameLetter(t[i], s[k + i])

\* The record satisfies the criteria the three controls hold.
Selected(r) ==
    /\ sectFilter = "all" \/ r.sect = sectFilter
    /\ locationFilter = ALL \/ r.location = locationFilter
    /\ \/ searchInput = <<>>
       \/ OccursIgnoringCase(searchInput, r.name)
       \/ OccursIgnoringCase(searchInput, r.location)

CatalogIndex(r) ==
    CHOOSE i \in 1..Len(MONASTERY_LOCATIONS) : MONASTERY_LOCATIONS[i] = r

\* C1: after a filter action the records handed to the marker layer are exactly
\* the catalog records that satisfy the category, region and text predicates,
\* in catalog order; with both selectors "all" and no text, the whole catalog.
C1_FilterSelectsExactly ==
    afterFilter =>
        /\ \A i \in 1..Len(MONASTERY_LOCATIONS) :
              Selected(MONASTERY_LOCATIONS[i])
                  <=> \E j \in 1..Len(rendered) : rendered[j] = MONASTERY_LOCATIONS[i]
        /\ \A j \in 1..Len(rendered) :
              \E i \in 1..Len(MONASTERY_LOCATIONS) : rendered[j] = MONASTERY_LOCATIONS[i]
        /\ \A j \in 1..(Len(rendered) - 1) :
              CatalogIndex(rendered[j]) < CatalogIndex(rendered[j + 1])
        /\ (sectFilter = "all" /\ locationFilter = ALL /\ searchInput = <<>>)
              => rendered = MONASTERY_LOCATIONS

\* A filter by sect and mixed-case text that selects Enchey and Do Drul Chorten
C1_Witness ==
    /\ lastOp = "filterMonasteries"
    /\ sectFilter = "Nyingma"
    /\ searchInput = <<"E","a","s","t">>
    /\ Len(rendered) = 2

MarkersOf(r) == {i \in 1..Len(markers) : markers[i].monastery = r}

\* C2: the marker layer holds exactly one marker for each record of the latest
\* addMarkers input, at that record's coordinates, and no other marker.
C2_OneMarkerPerRenderedRecord ==
    /\ Len(markers) = Len(rendered)
    /\ \A i \in 1..Len(MONASTERY_LOCATIONS) :
          LET r == MONASTERY_LOCATIONS[i]
          IN  Cardinality(MarkersOf(r))
                  = Cardinality({j \in 1..Len(rendered) : rendered[j] = r})
    /\ \A i \in 1..Len(markers) :
          markers[i].latlng = <<markers[i].monastery.lat, markers[i].monastery.lng>>

\* A one-record render that follows the nine-record render of initMap
C2_Witness ==
    /\ map # 0
    /\ lastOp = "search"
    /\ Len(rendered) = 1
    /\ Len(markers) = 1

DigitValue(c) == (CHOOSE i \in 1..Len(Digits) : Digits[i] = c) - 1

RECURSIVE DecimalValue(_)
DecimalValue(ds) ==
    IF ds = <<>> THEN 0
    ELSE 10 * DecimalValue(SubSeq(ds, 1, Len(ds) - 1)) + DigitValue(ds[Len(ds)])

FoundPrefix == <<"F","o","u","n","d"," ">>

FoundSuffix ==
    <<" ","m","o","n","a","s","t","e","r","i","e","s"," ","m","a","t","c","h",
      "i","n","g"," ","y","o","u","r"," ","c","r","i","t","e","r","i","a",".">>

\* C3: after a filter action the feedback reads "Found N monasteries matching
\* your criteria." with N the number of records that satisfy the criteria,
\* which is the number of markers in the layer; with no match N is 0 and the
\* layer is empty.
C3_FeedbackCountsMatches ==
    afterFilter =>
        LET text   == feedback.textContent
            digits == SubSeq(text, Len(FoundPrefix) + 1, Len(text) - Len(FoundSuffix))
            N      == DecimalValue(digits)
        IN  /\ Len(text) > Len(FoundPrefix) + Len(FoundSuffix)
            /\ SubSeq(text, 1, Len(FoundPrefix)) = FoundPrefix
            /\ SubSeq(text, Len(text) - Len(FoundSuffix) + 1, Len(text)) = FoundSuffix
            /\ \A i \in 1..Len(digits) : \E d \in 1..Len(Digits) : digits[i] = Digits[d]
            /\ Len(digits) > 1 => digits[1] # "0"
            /\ N = Cardinality({i \in 1..Len(MONASTERY_LOCATIONS) :
                                   Selected(MONASTERY_LOCATIONS[i])})
            /\ N = Len(markers)
            /\ N = 0 => markers = <<>>
            /\ feedback.display = "block"

\* A search that matches nothing, after initMap drew the nine markers
C3_Witness ==
    /\ map # 0
    /\ lastOp = "search"
    /\ searchInput = <<"z","z","z">>
    /\ markers = <<>>
    /\ feedback.textContent = FoundPrefix \o <<"0">> \o FoundSuffix

Standing == {i \in 1..Len(viewports) : ~viewports[i].removed}

\* C10: at most one viewport stands at any time, and it is the current one;
\* right after initMap, however many calls and filter actions came before,
\* exactly one viewport stands, at the default centre and zoom, carrying the
\* tile layer and the marker layer, and the marker layer holds exactly one
\* marker per record of the whole catalog.
C10_InitMapIdempotent ==
    /\ Cardinality(Standing) <= 1
    /\ map # 0 => Standing = {map}
    /\ lastOp = "initMap" =>
          /\ Standing = {map}
          /\ map = Len(viewports)
          /\ viewports[map].center = SIKKIM_CENTER
          /\ viewports[map].zoom = ZOOM_LEVEL
          /\ viewports[map].tileLayer
          /\ viewports[map].markerGroup
          /\ Len(markers) = Len(MONASTERY_LOCATIONS)
          /\ \A i \in 1..Len(MONASTERY_LOCATIONS) :
                Cardinality(MarkersOf(MONASTERY_LOCATIONS[i])) = 1

\* A third initMap, called while the controls hold a filter applied earlier
C10_Witness ==
    /\ lastOp = "initMap"
    /\ Len(viewports) = 3
    /\ sectFilter = "Kagyu"
    /\ feedback.display = "block"

\* C11 as claimed: once there is a viewport, every render, the one inside
\* initMap included, found the marker layer already on the current viewport.
C11_RenderOnAttachedLayer ==
    (lastOp # "load" /\ map # 0) => renderAttached

\* C11 as the code has it: the render inside initMap runs before the marker
\* layer is put on the new viewport, and initMap puts it there as its last
\* step; from then on the layer is on the current viewport, so every render
\* of a filter action that follows an initMap finds it attached.
C11_AttachedAfterInitialRender ==
    /\ lastOp = "initMap" => ~renderAttached
    /\ map # 0 => markersOnMap(viewports, map)
    /\ (afterFilter /\ map # 0) => renderAttached
    /\ \A i \in 1..Len(viewports) : viewports[i].markerGroup => i = map

\* A filter action after a second initMap: the layer is on the second viewport
C11_Witness ==
    /\ lastOp = "filterMonasteries"
    /\ map = 2
    /\ renderAttached
    /\ viewports[1].removed
    /\ Len(rendered) < Len(MONASTERY_LOCATIONS)

----------------------------------------------------------------------------
(* Properties of the slider, checked under SpecSlides *)

\* C8: with at least one slide, currentSlide is an index of a slide and the
\* slide at that index is the one and only active slide.
C8_OneActiveSlide ==
    slideCount > 0 =>
        /\ currentSlide \in 0..(slideCount - 1)
        /\ \A i \in 0..(slideCount - 1) : active[i] <=> (i = currentSlide)

\* prevSlide from the first slide wraps to the last
C8_Witness ==
    /\ slideCount = 3
    /\ runDir = "prev"
    /\ runLen = 1
    /\ runStart = 0
    /\ currentSlide = 2
    /\ active[2]

\* C9: with more than one slide, a run of calls in one direction is back at
\* the index it started from when it is slideCount calls long, and at another
\* index while it is shorter.
C9_CycleReturnsAfterCount ==
    (slideCount > 1 /\ runLen > 0) =>
        /\ runLen = slideCount => currentSlide = runStart
        /\ runLen < slideCount => currentSlide # runStart

\* Four prevSlide calls on four slides, begun at the third slide
C9_Witness ==
    /\ slideCount = 4
    /\ runDir = "prev"
    /\ runLen = 4
    /\ runStart = 2
    /\ currentSlide = 2

----------------------------------------------------------------------------
(* Properties of the backend, checked under SpecBackend *)

Admins == {i \in 1..Len(users) : users[i].role = "admin"}

\* C4: at most one user has role 'admin', and every user created after the
\* first has role 'user'.
C4_OnlyFirstUserIsAdmin ==
    /\ Cardinality(Admins) <= 1
    /\ \A i \in 2..Len(users) : users[i].role = "user"

\* C5: an upload is answered 201 only with a verified token of role 'admin';
\* with no token it is answered 401, with an invalid token 403, with a valid
\* token of another role 403, and in these three cases the Photo collection
\* is as it was.
C5_UploadIsRoleGated ==
    response.op = "upload" =>
        LET auth   == response.auth
            denied == auth.kind # "valid" \/ auth.user.role # "admin"
        IN  /\ response.status = 201 => ~denied
            /\ auth.kind = "none" => response.status = 401
            /\ auth.kind = "invalid" => response.status = 403
            /\ (auth.kind = "valid" /\ auth.user.role # "admin")
                  => response.status = 403
            /\ denied => Len(photos) = response.photosBefore

\* C6: a signup whose password has fewer than 6 characters is answered 400
\* (the database permitting an answer at all), and no user with such a
\* password is ever stored.
C6_ShortPasswordRejected ==
    /\ (response.op = "signup" /\ response.dbOk /\ Len(response.password) < 6)
          => response.status = 400
    /\ \A i \in 1..Len(users) : Len(users[i].password.bcrypt) >= 6

\* C7: when the query succeeds, the listing is the persisted photos, newest
\* first, if there is any, and the placeholder entries otherwise.
C7_ListingFallsBackToPlaceholders ==
    (response.op = "photos" /\ response.dbOk) =>
        IF Len(photos) > 0
        THEN /\ response.status = 200
             /\ response.body \in sortedByUploadDate(photos)
        ELSE /\ response.status = 200
             /\ response.body = mockPhotos

====
